---- MODULE Spec2Model ----
(***************************************************************************)
(* Expense tracker (src/main.py): a form over one SQLite table             *)
(* expenses(id, date, category, amount, description), a listing ordered by *)
(* date descending and a total label.                                      *)
(*                                                                         *)
(* Texts are tuples of one-character strings, so that strip(), float(),    *)
(* str() and the "{:,.2f}" formatting are computed and not assumed.        *)
(* Amounts are counted in hundredths: the amount field's validator admits  *)
(* at most two fractional digits.  A QDate is <<year, month, day>>; the    *)
(* store keeps and orders its "yyyy-MM-dd" text.                           *)
(***************************************************************************)
EXTENDS Integers, Sequences, FiniteSets, TLC

\* Largest value of the AUTOINCREMENT counter the model explores.
MaxSeq == 2

(***************************************************************************)
(* Text helpers                                                            *)
(***************************************************************************)
DigitChars == <<"0", "1", "2", "3", "4", "5", "6", "7", "8", "9">>

IsDigit(c) == \E i \in 1..10 : DigitChars[i] = c

DigitVal(c) == (CHOOSE i \in 1..10 : DigitChars[i] = c) - 1

AllDigits(s) == \A i \in 1..Len(s) : IsDigit(s[i])

RECURSIVE DigitsToInt(_)
DigitsToInt(s) ==
    IF s = <<>> THEN 0
    ELSE 10 * DigitsToInt(SubSeq(s, 1, Len(s) - 1)) + DigitVal(s[Len(s)])

\* str(n) for a non-negative integer.
RECURSIVE str(_)
str(n) ==
    IF n < 10 THEN <<DigitChars[n + 1]>>
    ELSE str(n \div 10) \o <<DigitChars[(n % 10) + 1]>>

\* Python str.strip(): leading and trailing whitespace removed.
RECURSIVE strip(_)
strip(s) ==
    IF s = <<>> THEN s
    ELSE IF Head(s) = " " THEN strip(Tail(s))
    ELSE IF s[Len(s)] = " " THEN strip(SubSeq(s, 1, Len(s) - 1))
    ELSE s

\* Position of the first "." of s, or 0.
DotAt(s) ==
    IF \E i \in 1..Len(s) : s[i] = "."
    THEN CHOOSE i \in 1..Len(s) : s[i] = "." /\ \A j \in 1..(i - 1) : s[j] # "."
    ELSE 0

IntPart(s) == IF DotAt(s) = 0 THEN s ELSE SubSeq(s, 1, DotAt(s) - 1)

FracPart(s) == IF DotAt(s) = 0 THEN <<>> ELSE SubSeq(s, DotAt(s) + 1, Len(s))

\* The regular expression ^\d+\.?\d{0,2}$ of the amount validator.
AmountRegex(s) ==
    /\ Len(IntPart(s)) >= 1
    /\ AllDigits(IntPart(s))
    /\ AllDigits(FracPart(s))
    /\ Len(FracPart(s)) <= 2

\* QRegularExpressionValidator: a full match is Acceptable, a text that can
\* still grow into a match (here only the empty text) is Intermediate.
amount_validator(s) ==
    IF AmountRegex(s) THEN "Acceptable"
    ELSE IF s = <<>> THEN "Intermediate"
    ELSE "Invalid"

\* Python float(text) as [ok, value]: ok is FALSE where float raises
\* ValueError; value is in hundredths.  The value is exact for texts of at
\* most two fractional digits, which is all the validator admits.
UnsignedOk(t) ==
    /\ AllDigits(IntPart(t))
    /\ AllDigits(FracPart(t))
    /\ Len(IntPart(t)) + Len(FracPart(t)) >= 1

Hundredths(t) ==
    LET f == FracPart(t)
        f2 == IF Len(f) = 0 THEN <<"0", "0">>
              ELSE IF Len(f) = 1 THEN f \o <<"0">>
              ELSE SubSeq(f, 1, 2)
    IN  100 * DigitsToInt(IntPart(t)) + DigitsToInt(f2)

float(text) ==
    LET t == strip(text)
        neg == t # <<>> /\ Head(t) = "-"
        body == IF t # <<>> /\ Head(t) \in {"-", "+"} THEN Tail(t) ELSE t
    IN  IF UnsignedOk(body)
        THEN [ok |-> TRUE, value |-> IF neg THEN 0 - Hundredths(body) ELSE Hundredths(body)]
        ELSE [ok |-> FALSE, value |-> 0]

\* The "," grouping of "{:,}" on a digit text.
RECURSIVE Grouped(_)
Grouped(d) ==
    IF Len(d) <= 3 THEN d
    ELSE Grouped(SubSeq(d, 1, Len(d) - 3)) \o <<",">> \o SubSeq(d, Len(d) - 2, Len(d))

\* f"{amount:,.2f}" with the currency sign in front, amount in hundredths >= 0.
FormatAmount(h) ==
    <<"₹">> \o Grouped(str(h \div 100)) \o <<".">>
            \o <<DigitChars[((h % 100) \div 10) + 1], DigitChars[(h % 10) + 1]>>

(***************************************************************************)
(* Dates                                                                   *)
(***************************************************************************)
\* QDate.currentDate() of the run.
currentDate == <<2024, 1, 5>>

\* Dates the user may try to put into the date picker; the last is tomorrow.
DateChoices == {<<2023, 12, 31>>, <<2024, 1, 5>>, <<2024, 1, 6>>}

\* QDate comparison.
DateLeq(a, b) ==
    \/ a[1] < b[1]
    \/ a[1] = b[1] /\ a[2] < b[2]
    \/ a[1] = b[1] /\ a[2] = b[2] /\ a[3] <= b[3]

Pad(digits, width) ==
    [i \in 1..(width - Len(digits)) |-> "0"] \o digits

\* QDate.toString("yyyy-MM-dd")
toString(d) ==
    Pad(str(d[1]), 4) \o <<"-">> \o Pad(str(d[2]), 2) \o <<"-">> \o Pad(str(d[3]), 2)

\* Code-point order of the characters of a date text: "-" sorts before digits.
CharOrd(c) == IF IsDigit(c) THEN DigitVal(c) + 1 ELSE 0

\* Text comparison a <= b (SQLite BINARY collation).
RECURSIVE TextLeq(_, _)
TextLeq(a, b) ==
    IF a = <<>> THEN TRUE
    ELSE IF b = <<>> THEN FALSE
    ELSE IF CharOrd(Head(a)) # CharOrd(Head(b)) THEN CharOrd(Head(a)) < CharOrd(Head(b))
    ELSE TextLeq(Tail(a), Tail(b))

(***************************************************************************)
(* The form's choices                                                      *)
(***************************************************************************)
\* Items of the category dropdown, in order.
Categories ==
    <<"Food", "Transport", "Bills", "Shopping", "Entertainment", "Healthcare", "Others">>

\* Dropdown indexes (0-based) the user picks in the model.
CategoryChoices == {0, 2}

\* Texts the user may try to put into the amount field.
AmountTexts ==
    { <<>>, <<"0">>, <<"1", "2", ".", "5">>, <<"-", "5">>, <<"a">>, <<"1", ".", "2", "5", "5">> }

\* Texts the user may put into the description field.
DescriptionTexts == { <<>>, <<" ">>, <<" ", "L", " ">> }

(***************************************************************************)
(* State                                                                   *)
(***************************************************************************)
VARIABLES
    pc,                 \* "NotStarted", "Idle", "AwaitingConfirmation", "Exited"
    table_exists,       \* expense.db holds the expenses table
    expenses,           \* the rows of the expenses table
    sqlite_sequence,    \* the AUTOINCREMENT counter of the table
    date_box,           \* QDate of the date picker
    category_dropdown,  \* current index of the dropdown
    amount_input,       \* text of the amount field
    description_input,  \* text of the description field
    table,              \* rows of the QTableWidget, each a tuple of 5 cell texts
    selected,           \* selected row of the table (1-based), 0 for none
    total_label,        \* text of the total label
    pending,            \* texts read from the selected row while the prompt is open
    last,               \* the latest event: its kind, the dialogs it showed, the INSERT or
                        \* DELETE statements it executed
    ever_ids            \* history: every id that was in the table since the model's start

vars == <<pc, table_exists, expenses, sqlite_sequence, date_box, category_dropdown,
          amount_input, description_input, table, selected, total_label, pending,
          last, ever_ids>>

form == <<date_box, category_dropdown, amount_input, description_input>>
store == <<table_exists, expenses, sqlite_sequence, ever_ids>>
display == <<table, selected, total_label>>

NoPending == [expense_id |-> <<>>, amount |-> <<>>, description |-> <<>>]

Handler(op, dialogs, execs) == [op |-> op, dialogs |-> dialogs, execs |-> execs]

(***************************************************************************)
(* The store                                                               *)
(***************************************************************************)
RECURSIVE SumOf(_)
SumOf(rows) ==
    IF rows = {} THEN 0
    ELSE LET r == CHOOSE x \in rows : TRUE IN r.amount + SumOf(rows \ {r})

\* The constraints of the table: NOT NULL on every column, CHECK(amount > 0).
\* (No bound value of add_expense is NULL.)
TableConstraints(date, category, amount, description) == amount > 0

\* INSERT INTO expenses (date, category, amount, description) VALUES (?, ?, ?, ?)
\* io is FALSE when the engine reports an I/O failure.
InsertSucceeds(io, exists, date, category, amount, description) ==
    io /\ exists /\ TableConstraints(date, category, amount, description)

\* Variant: a plain INTEGER PRIMARY KEY, which hands out the largest id in
\* the table plus one and so reuses the id of a deleted last row.
NextIdReusing(seq, rows) ==
    (IF rows = {} THEN 0
     ELSE CHOOSE i \in {r.id : r \in rows} : \A r \in rows : r.id <= i) + 1

\* id INTEGER PRIMARY KEY AUTOINCREMENT: one more than the largest id ever used.
NextId(seq, rows) ==
    LET m == IF rows = {} THEN 0
             ELSE CHOOSE i \in {r.id : r \in rows} : \A r \in rows : r.id <= i
    IN  (IF seq >= m THEN seq ELSE m) + 1

\* Variant: no affinity conversion, so a bound text equals no integer id.
IdMatchesWithoutAffinity(id, bound_text) == FALSE

\* The column id has INTEGER affinity: a bound text that looks like an integer is
\* compared as that integer, any other text equals no id.
IdMatches(id, bound_text) ==
    bound_text # <<>> /\ AllDigits(bound_text) /\ DigitsToInt(bound_text) = id

\* DELETE FROM expenses WHERE id = ?
DeleteRows(rows, bound_text) == {r \in rows : ~IdMatches(r.id, bound_text)}

\* Variant: ORDER BY date (ascending).
SelectAllAscending(exists, rows) ==
    IF ~exists THEN {<<>>}
    ELSE LET n == Cardinality(rows) IN
         { q \in [1..n -> rows] :
             /\ \A i, j \in 1..n : i # j => q[i] # q[j]
             /\ \A i \in 1..(n - 1) : TextLeq(q[i].date, q[i + 1].date) }

\* SELECT id, date, category, amount, description FROM expenses ORDER BY date DESC:
\* every order of the rows that is non-increasing in the date text; no row when
\* the query fails (the table is missing).
SelectAll(exists, rows) ==
    IF ~exists THEN {<<>>}
    ELSE LET n == Cardinality(rows) IN
         { q \in [1..n -> rows] :
             /\ \A i, j \in 1..n : i # j => q[i] # q[j]
             /\ \A i \in 1..(n - 1) : TextLeq(q[i + 1].date, q[i].date) }

\* SELECT SUM(amount) FROM expenses: one row holding the sum, NULL for an empty
\* table; no row when the query fails.
SelectSum(exists, rows) ==
    [row |-> exists, null |-> rows = {}, value |-> SumOf(rows)]

(***************************************************************************)
(* Rendering                                                               *)
(***************************************************************************)
\* The five cells of a table row: str(value), the amount as "₹{:,.2f}".
RenderRow(r) ==
    <<str(r.id), r.date, r.category, FormatAmount(r.amount), r.description>>

TotalText(total) == <<"T", "o", "t", "a", "l", ":", " ">> \o FormatAmount(total)

Dialog(icon, text, detail) == [icon |-> icon, text |-> text, detail |-> detail]

\* load_table, on the store as the handler leaves it: the table is emptied (which
\* drops the selection) and refilled with one row per row of the query.
load_table ==
    /\ \E q \in SelectAll(table_exists', expenses') :
          table' = [i \in 1..Cardinality(DOMAIN q) |-> RenderRow(q[i])]
    /\ selected' = 0

\* Variant: the label is left as it was.
update_total_stale == total_label' = total_label

\* update_total, on the store as the handler leaves it.
update_total ==
    LET r == SelectSum(table_exists', expenses')
        total == IF r.row /\ ~r.null /\ r.value # 0 THEN r.value ELSE 0
    IN  total_label' = TotalText(total)

\* clear_inputs: the four fields back to their defaults.
clear_inputs ==
    /\ amount_input' = <<>>
    /\ description_input' = <<>>
    /\ category_dropdown' = 0
    /\ date_box' = currentDate

(***************************************************************************)
(* Start of the program                                                    *)
(***************************************************************************)
\* What expense.db may hold when the program starts: no table, an empty table,
\* or a table with a row of an earlier run.
InitialTables ==
    { {},
      { [id |-> 1, date |-> toString(<<2024, 1, 1>>), category |-> "Bills",
         amount |-> 100000, description |-> <<"R">>] } }

Init ==
    /\ pc = "NotStarted"
    /\ table_exists \in BOOLEAN
    /\ expenses \in (IF table_exists THEN InitialTables ELSE {{}})
    /\ sqlite_sequence = NextId(0, expenses) - 1
    /\ ever_ids = {r.id : r \in expenses}
    /\ date_box = currentDate
    /\ category_dropdown = 0
    /\ amount_input = <<>>
    /\ description_input = <<>>
    /\ table = <<>>
    /\ selected = 0
    /\ total_label = <<>>
    /\ pending = NoPending
    /\ last = Handler("none", <<>>, 0)

\* create_widgets: the fields as constructed (the label's first text,
\* "Total: ₹0.00", is replaced by update_total before the window shows).
create_widgets ==
    /\ date_box' = currentDate
    /\ category_dropdown' = 0
    /\ amount_input' = <<>>
    /\ description_input' = <<>>

\* setup_database after a successful open: CREATE TABLE IF NOT EXISTS, whose
\* result the code does not look at.  created is FALSE when the statement fails.
setup_database(created) ==
    /\ table_exists' = (table_exists \/ created)
    /\ UNCHANGED <<expenses, sqlite_sequence, ever_ids>>

\* ExpenseApp.__init__
ExpenseApp_init ==
    /\ pc = "NotStarted"
    /\ \E opened \in BOOLEAN, created \in BOOLEAN :
          IF ~opened
          THEN /\ pc' = "Exited"
               /\ last' = Handler("init",
                              <<Dialog("critical", "Could not open database.", <<>>)>>, 0)
               /\ UNCHANGED <<store, form, display, pending>>
          ELSE /\ setup_database(created)
               /\ create_widgets
               /\ load_table
               /\ update_total
               /\ pc' = "Idle"
               /\ last' = Handler("init", <<>>, 0)
               /\ UNCHANGED pending

(***************************************************************************)
(* The user at the widgets                                                 *)
(***************************************************************************)
\* QDateEdit with setMaximumDate(currentDate): a later date is not taken.
EditDate ==
    /\ pc = "Idle"
    /\ \E d \in DateChoices :
          /\ DateLeq(d, currentDate)
          /\ date_box' = d
    /\ last' = Handler("edit", <<>>, 0)
    /\ UNCHANGED <<pc, store, display, pending,
                   category_dropdown, amount_input, description_input>>

EditCategory ==
    /\ pc = "Idle"
    /\ \E i \in CategoryChoices : category_dropdown' = i
    /\ last' = Handler("edit", <<>>, 0)
    /\ UNCHANGED <<pc, store, display, pending,
                   date_box, amount_input, description_input>>

\* QLineEdit with the amount validator: a text the validator calls Invalid is
\* not taken.
EditAmount ==
    /\ pc = "Idle"
    /\ \E t \in AmountTexts :
          /\ amount_validator(t) # "Invalid"
          /\ amount_input' = t
    /\ last' = Handler("edit", <<>>, 0)
    /\ UNCHANGED <<pc, store, display, pending,
                   date_box, category_dropdown, description_input>>

EditDescription ==
    /\ pc = "Idle"
    /\ \E t \in DescriptionTexts : description_input' = t
    /\ last' = Handler("edit", <<>>, 0)
    /\ UNCHANGED <<pc, store, display, pending,
                   date_box, category_dropdown, amount_input>>

\* SelectRows / SingleSelection: at most one whole row is selected.
SelectRow ==
    /\ pc = "Idle"
    /\ \E i \in 0..Len(table) : selected' = i
    /\ last' = Handler("edit", <<>>, 0)
    /\ UNCHANGED <<pc, store, form, table, total_label, pending>>

(***************************************************************************)
(* The handlers                                                            *)
(***************************************************************************)
\* Variant: the description is checked before the amount.
ValidationErrorDescriptionFirst(amount_text, description) ==
    IF description = <<>> THEN "Please enter a description."
    ELSE IF amount_text = <<>> THEN "Please enter an amount."
    ELSE IF ~float(amount_text).ok \/ float(amount_text).value <= 0
         THEN "Amount must be a positive number."
    ELSE ""

\* Variant: the description is not checked.
ValidationErrorNoDescription(amount_text, description) ==
    IF amount_text = <<>> THEN "Please enter an amount."
    ELSE IF ~float(amount_text).ok \/ float(amount_text).value <= 0
         THEN "Amount must be a positive number."
    ELSE ""

\* Variant: the amount is only required to be a number.
ValidationErrorAnyNumber(amount_text, description) ==
    IF amount_text = <<>> THEN "Please enter an amount."
    ELSE IF description = <<>> THEN "Please enter a description."
    ELSE IF ~float(amount_text).ok THEN "Amount must be a positive number."
    ELSE ""

\* The checks of add_expense in their order; "" when the fields pass.
ValidationError(amount_text, description) ==
    IF amount_text = <<>> THEN "Please enter an amount."
    ELSE IF description = <<>> THEN "Please enter a description."
    ELSE IF ~float(amount_text).ok \/ float(amount_text).value <= 0
         THEN "Amount must be a positive number."
    ELSE ""

\* The row add_expense binds to the INSERT.
BoundRow(id) ==
    [id |-> id,
     date |-> toString(date_box),
     category |-> Categories[category_dropdown + 1],
     amount |-> float(strip(amount_input)).value,
     description |-> strip(description_input)]

\* add_expense (the add button, or Return in the amount or description field)
add_expense ==
    /\ pc = "Idle"
    /\ LET amount_text == strip(amount_input)
           description == strip(description_input)
           error == ValidationError(amount_text, description)
           new == BoundRow(NextId(sqlite_sequence, expenses))
       IN  IF error # ""
           THEN /\ last' = Handler("add", <<Dialog("warning", error, <<>>)>>, 0)
                /\ UNCHANGED <<pc, store, form, display, pending>>
           ELSE /\ sqlite_sequence < MaxSeq
                /\ \E io \in BOOLEAN :
                      IF InsertSucceeds(io, table_exists, new.date, new.category,
                                        new.amount, new.description)
                      THEN /\ expenses' = expenses \cup {new}
                           /\ sqlite_sequence' = new.id
                           /\ ever_ids' = ever_ids \cup {new.id}
                           /\ table_exists' = table_exists
                           /\ clear_inputs
                           /\ load_table
                           /\ update_total
                           /\ last' = Handler("add", <<>>, 1)
                           /\ UNCHANGED <<pc, pending>>
                      ELSE /\ last' = Handler("add",
                                         <<Dialog("critical", "Failed to add expense", <<>>)>>, 1)
                           /\ UNCHANGED <<pc, store, form, display, pending>>

\* The clear button
clear_button_clicked ==
    /\ pc = "Idle"
    /\ clear_inputs
    /\ last' = Handler("clear", <<>>, 0)
    /\ UNCHANGED <<pc, store, display, pending>>

\* delete_expense up to the confirmation prompt, which is modal: the handler
\* waits in it for the answer.
delete_expense ==
    /\ pc = "Idle"
    /\ IF selected = 0
       THEN /\ last' = Handler("delete",
                          <<Dialog("warning", "Please select an expense to delete.", <<>>)>>, 0)
            /\ UNCHANGED <<pc, store, form, display, pending>>
       ELSE LET row == table[selected]
                asked == [expense_id |-> row[1], amount |-> row[4], description |-> row[5]]
            IN  /\ pending' = asked
                /\ pc' = "AwaitingConfirmation"
                /\ last' = Handler("delete",
                              <<Dialog("question", "Delete this expense?",
                                       <<asked.amount, asked.description>>)>>, 0)
                /\ UNCHANGED <<store, form, display>>

\* Variant: a failed DELETE is executed and reported a second time.
confirm_yes_retrying ==
    /\ pc = "AwaitingConfirmation"
    /\ pc' = "Idle"
    /\ pending' = NoPending
    /\ \E io \in BOOLEAN :
          IF io /\ table_exists
          THEN /\ expenses' = DeleteRows(expenses, pending.expense_id)
               /\ UNCHANGED <<table_exists, sqlite_sequence, ever_ids>>
               /\ load_table
               /\ update_total
               /\ last' = Handler("delete", last.dialogs, 1)
               /\ UNCHANGED form
          ELSE /\ last' = Handler("delete",
                             last.dialogs \o
                                <<Dialog("critical", "Failed to delete expense", <<>>),
                                  Dialog("critical", "Failed to delete expense", <<>>)>>, 2)
               /\ UNCHANGED <<store, form, display>>

\* delete_expense after the answer Yes
confirm_yes ==
    /\ pc = "AwaitingConfirmation"
    /\ pc' = "Idle"
    /\ pending' = NoPending
    /\ \E io \in BOOLEAN :
          IF io /\ table_exists
          THEN /\ expenses' = DeleteRows(expenses, pending.expense_id)
               /\ UNCHANGED <<table_exists, sqlite_sequence, ever_ids>>
               /\ load_table
               /\ update_total
               /\ last' = Handler("delete", last.dialogs, 1)
               /\ UNCHANGED form
          ELSE /\ last' = Handler("delete",
                             Append(last.dialogs,
                                    Dialog("critical", "Failed to delete expense", <<>>)), 1)
               /\ UNCHANGED <<store, form, display>>

\* Variant: the answer is not looked at and the DELETE runs.
confirm_no_deleting ==
    /\ pc = "AwaitingConfirmation"
    /\ pc' = "Idle"
    /\ pending' = NoPending
    /\ expenses' = DeleteRows(expenses, pending.expense_id)
    /\ UNCHANGED <<table_exists, sqlite_sequence, ever_ids>>
    /\ load_table
    /\ update_total
    /\ last' = Handler("delete", last.dialogs, 1)
    /\ UNCHANGED form

\* delete_expense after the answer No
confirm_no ==
    /\ pc = "AwaitingConfirmation"
    /\ pc' = "Idle"
    /\ pending' = NoPending
    /\ last' = Handler("delete", last.dialogs, 0)
    /\ UNCHANGED <<store, form, display>>

Next ==
    \/ ExpenseApp_init
    \/ EditDate
    \/ EditCategory
    \/ EditAmount
    \/ EditDescription
    \/ SelectRow
    \/ add_expense
    \/ clear_button_clicked
    \/ delete_expense
    \/ confirm_yes
    \/ confirm_no

Spec == Init /\ [][Next]_vars

(***************************************************************************)
(* Reading the display back                                                *)
(***************************************************************************)
\* The number a displayed money text stands for, in hundredths.
DisplayedHundredths(text) == DigitsToInt(SelectSeq(text, IsDigit))

\* The date a "yyyy-MM-dd" text stands for.
DisplayedDate(text) ==
    <<DigitsToInt(SubSeq(text, 1, 4)), DigitsToInt(SubSeq(text, 6, 7)),
      DigitsToInt(SubSeq(text, 9, 10))>>

\* The table row shows the stored row r.
RowShows(row, r) ==
    /\ DigitsToInt(row[1]) = r.id
    /\ row[2] = r.date
    /\ row[3] = r.category
    /\ DisplayedHundredths(row[4]) = r.amount
    /\ row[5] = r.description

Icons(dialogs) == [i \in 1..Len(dialogs) |-> dialogs[i].icon]

Warned(l, text) == l.dialogs = <<Dialog("warning", text, <<>>)>>

Persisted == <<table_exists, expenses, sqlite_sequence>>

Shown == <<table, total_label>>

(***************************************************************************)
(* C1                                                                      *)
(***************************************************************************)
\* C1: every row of the expenses table has amount > 0, in the initial state and
\* after every step; and the rule is kept at the input as well as by the table:
\* add_expense executes its INSERT only with a positive amount.
C1_AmountPositive ==
    /\ \A r \in expenses : r.amount > 0
    /\ [][ /\ \A r \in expenses' : r.amount > 0
           /\ (add_expense /\ last'.op = "add" /\ last'.execs > 0)
                 => (float(strip(amount_input)).ok /\ float(strip(amount_input)).value > 0)
         ]_vars

\* C1 witness: a zero amount was just refused while rows are stored.
C1_Witness ==
    /\ last.op = "add"
    /\ Warned(last, "Amount must be a positive number.")
    /\ amount_input = <<"0">>
    /\ expenses # {}

(***************************************************************************)
(* C2                                                                      *)
(***************************************************************************)
\* C2: whenever the application is Idle the total label shows the sum of the
\* stored amounts, and shows 0.00 when nothing is stored.
C2_TotalIsSum ==
    pc = "Idle" =>
        /\ DisplayedHundredths(total_label) = SumOf(expenses)
        /\ expenses = {} =>
              total_label = <<"T", "o", "t", "a", "l", ":", " ", "₹", "0", ".", "0", "0">>

\* C2 witness: Idle after a completed delete that left rows behind.
C2_Witness ==
    /\ pc = "Idle"
    /\ last = Handler("delete", last.dialogs, 1)
    /\ Icons(last.dialogs) = <<"question">>
    /\ SumOf(expenses) > 0
    /\ DisplayedHundredths(total_label) = SumOf(expenses)

(***************************************************************************)
(* C3                                                                      *)
(***************************************************************************)
\* C3: whenever the application is Idle the table has exactly one row for each
\* stored row and no other row, and the dates of its rows never increase from
\* one row to the next.
C3_TableIsListing ==
    pc = "Idle" =>
        /\ Len(table) = Cardinality(expenses)
        /\ \A r \in expenses :
              Cardinality({i \in 1..Len(table) : RowShows(table[i], r)}) = 1
        /\ \A i \in 1..(Len(table) - 1) :
              DateLeq(DisplayedDate(table[i + 1][2]), DisplayedDate(table[i][2]))

\* C3 witness: Idle with two rows of different dates on display.
C3_Witness ==
    /\ pc = "Idle"
    /\ Len(table) = 2
    /\ Cardinality(expenses) = 2
    /\ DisplayedDate(table[1][2]) # DisplayedDate(table[2][2])

(***************************************************************************)
(* C4                                                                      *)
(***************************************************************************)
\* A step of add_expense whose INSERT succeeded.
SuccessfulAdd == add_expense /\ last'.op = "add" /\ last'.dialogs = <<>> /\ last'.execs = 1

\* The step adds exactly one row, with the form's date, category and amount, the
\* given description and an id never used before, and keeps every other row.
AddsOneRow(description) ==
    \E new \in expenses' :
        /\ new \notin expenses
        /\ expenses' = expenses \cup {new}
        /\ DisplayedDate(new.date) = date_box
        /\ new.category = Categories[category_dropdown + 1]
        /\ new.amount = float(amount_input).value
        /\ new.description = description
        /\ new.id \notin ever_ids
        /\ \A r \in expenses : r.id # new.id

\* C4 as stated: a successful add-expense adds exactly one row carrying the
\* exact date, category, amount and description of the submission, keeps the
\* other rows and gives the new row an id no row has or ever had.
C4_ExactValues == [][SuccessfulAdd => AddsOneRow(description_input)]_vars

\* C4 amended: as C4, with the description carried without its leading and
\* trailing whitespace.
C4_TrimmedDescription == [][SuccessfulAdd => AddsOneRow(strip(description_input))]_vars

\* C4 witness: an add succeeded after an earlier row had been deleted.
C4_Witness ==
    /\ last = Handler("add", <<>>, 1)
    /\ \E r \in expenses : r.id = sqlite_sequence /\ r.description = <<"L">>
    /\ \E i \in ever_ids : \A r \in expenses : r.id # i

(***************************************************************************)
(* C5                                                                      *)
(***************************************************************************)
\* The step removes exactly the stored row that the selected table row and the
\* prompt show, keeps the other rows, and lowers the total by that row's amount.
RemovesShownRow ==
    \E r \in expenses :
        /\ RowShows(table[selected], r)
        /\ DigitsToInt(pending.expense_id) = r.id
        /\ last.dialogs = <<Dialog("question", "Delete this expense?",
                                   <<table[selected][4], table[selected][5]>>)>>
        /\ DisplayedHundredths(last.dialogs[1].detail[1]) = r.amount
        /\ last.dialogs[1].detail[2] = r.description
        /\ expenses' = expenses \ {r}
        /\ SumOf(expenses') = SumOf(expenses) - r.amount
        /\ DisplayedHundredths(total_label') = DisplayedHundredths(total_label) - r.amount

\* A step of delete_expense, after Yes, whose DELETE succeeded.
SuccessfulDelete == confirm_yes /\ last'.execs = 1 /\ Icons(last'.dialogs) = <<"question">>

\* C5 as stated: every confirmed delete of a selected row removes exactly the
\* row shown in the selection and in the prompt, keeps the others, and lowers
\* the total by that row's amount.
C5_ConfirmedDeleteRemoves == [][confirm_yes => RemovesShownRow]_vars

\* C5 amended: a confirmed delete whose DELETE statement succeeds removes
\* exactly the row shown, keeps the others, and lowers the total by its amount.
C5_SuccessfulDeleteRemoves == [][SuccessfulDelete => RemovesShownRow]_vars

\* C5 witness: a confirmed delete went through and left another row stored.
C5_Witness ==
    /\ pc = "Idle"
    /\ last = Handler("delete", last.dialogs, 1)
    /\ Icons(last.dialogs) = <<"question">>
    /\ Cardinality(expenses) = 1
    /\ Cardinality(ever_ids) = 2

(***************************************************************************)
(* C6                                                                      *)
(***************************************************************************)
PositiveNumber(text) == float(text).ok /\ float(text).value > 0

\* C6: add_expense reports the first failing rule only: an empty amount as
\* "enter an amount" whatever the description; otherwise an empty-after-trimming
\* description as "enter a description" whatever the amount; otherwise an amount
\* that is no positive number as "must be a positive number"; and never more
\* than one validation message.
C6_FirstFailureOnly ==
    [][ add_expense =>
          LET a == strip(amount_input)
              d == strip(description_input)
          IN  /\ a = <<>> => Warned(last', "Please enter an amount.")
              /\ (a # <<>> /\ d = <<>>) => Warned(last', "Please enter a description.")
              /\ (a # <<>> /\ d # <<>> /\ ~PositiveNumber(a))
                    => Warned(last', "Amount must be a positive number.")
              /\ (a # <<>> /\ d # <<>> /\ PositiveNumber(a))
                    => \A i \in 1..Len(last'.dialogs) : last'.dialogs[i].icon # "warning"
              /\ Cardinality({i \in 1..Len(last'.dialogs) :
                                last'.dialogs[i].icon = "warning"}) <= 1
      ]_vars

\* C6 witness: a zero amount with a blank description was reported as a missing
\* description.
C6_Witness ==
    /\ last.op = "add"
    /\ Warned(last, "Please enter a description.")
    /\ amount_input = <<"0">>
    /\ description_input = <<" ">>

(***************************************************************************)
(* C7                                                                      *)
(***************************************************************************)
\* C7: a submission that fails validation executes no statement and leaves the
\* stored rows, the table and the total label as they were.
C7_RejectedBeforeStorage ==
    [][ ( /\ add_expense
          /\ \/ strip(amount_input) = <<>>
             \/ strip(description_input) = <<>>
             \/ ~PositiveNumber(strip(amount_input)) )
        => /\ last'.execs = 0
           /\ Persisted' = Persisted
           /\ Shown' = Shown
      ]_vars

\* C7 witness: a blank description was just refused while rows are stored and shown.
C7_Witness ==
    /\ last.op = "add"
    /\ Warned(last, "Please enter a description.")
    /\ amount_input = <<"1", "2", ".", "5">>
    /\ expenses # {}
    /\ Len(table) = Cardinality(expenses)

(***************************************************************************)
(* C8                                                                      *)
(***************************************************************************)
\* C8: a delete with no row selected shows one warning and no prompt; a declined
\* prompt executes no DELETE; both leave the stored rows, the table and the
\* total label as they were and end in Idle.
C8_NoSelectionOrDeclined ==
    [][ /\ (delete_expense /\ selected = 0)
            => /\ Warned(last', "Please select an expense to delete.")
               /\ pc' = "Idle"
               /\ Persisted' = Persisted
               /\ Shown' = Shown
        /\ confirm_no
            => /\ last'.execs = 0
               /\ pc' = "Idle"
               /\ Persisted' = Persisted
               /\ Shown' = Shown
      ]_vars

\* C8 witness: a prompt was declined and the row it named is still stored.
C8_Witness ==
    /\ pc = "Idle"
    /\ last = Handler("delete", last.dialogs, 0)
    /\ Icons(last.dialogs) = <<"question">>
    /\ selected # 0
    /\ \E r \in expenses : RowShows(table[selected], r)

(***************************************************************************)
(* C9                                                                      *)
(***************************************************************************)
Criticals(dialogs) == {i \in 1..Len(dialogs) : dialogs[i].icon = "critical"}

\* C9: when the INSERT or the DELETE fails, the statement was executed once, the
\* failure is shown once, the stored rows are those from before, and the
\* application is Idle again, where add, clear and delete are enabled (add up
\* to the counter bound MaxSeq).
C9_StorageFailure ==
    /\ [][ ((add_expense \/ confirm_yes) /\ Criticals(last'.dialogs) # {})
            => /\ last'.execs = 1
               /\ Cardinality(Criticals(last'.dialogs)) = 1
               /\ Persisted' = Persisted
               /\ pc' = "Idle"
          ]_vars
    /\ [](Criticals(last.dialogs) # {} /\ last.op \in {"add", "delete"}
            => /\ ENABLED clear_button_clicked
               /\ ENABLED delete_expense
               /\ (ENABLED add_expense) \/ sqlite_sequence >= MaxSeq)

\* C9 witness: a DELETE just failed and its row is still stored.
C9_Witness ==
    /\ pc = "Idle"
    /\ last.op = "delete"
    /\ Icons(last.dialogs) = <<"question", "critical">>
    /\ expenses # {}

(***************************************************************************)
(* C10                                                                     *)
(***************************************************************************)
\* C10: the application is never Idle (nor inside a handler) without the
\* expenses table: a start that cannot open the store or create the table ends
\* the process.
C10_NoTableNoIdle == pc \in {"Idle", "AwaitingConfirmation"} => table_exists

====
